---- MODULE Spec2Model ----
(***************************************************************************)
(* A model of drivers/staging/android/lowmemorykiller.c: the shrinker      *)
(* callback lowmem_scan (threshold lookup, adaptive clamp, cooldown gates, *)
(* bounded candidate list, victim termination, throttle update), the       *)
(* vmpressure notifier and the module parameters they read.                *)
(*                                                                         *)
(* Abstractions, all stated where they are made:                           *)
(*  - a process is one task: its pid, comm, signal->oom_score_adj, mm and  *)
(*    TIF_MEMDIE flag (thread groups are not modelled; task->signal is     *)
(*    never NULL for a task reachable from the task list);                 *)
(*  - tune_lmk_param and the page counters are outside the file's control: *)
(*    other_free / other_file are inputs drawn at the point they are read; *)
(*  - jiffies is a counter that does not wrap inside the modelled window,  *)
(*    so time_before_eq(a, b) is a <= b and time_after(a, b) is a > b;      *)
(*  - logging, tracing and the dump work items change no state read by the *)
(*    decision and are left out.                                           *)
(***************************************************************************)
EXTENDS Integers, Sequences, FiniteSets, TLC

(* ------------------------------ bounds --------------------------------- *)
\* concurrent callers of lowmem_scan
NCallers == 2
\* user processes in the task list (pids 1..NProc); pid 0 is a kernel thread
NProc == 3
\* total invocations of lowmem_scan started in one behaviour: with concurrent
\* callers, and with one caller at a time
MaxCalls == 2
MaxCallsSeq == 3
\* total changes the rest of the system makes to the processes
MaxEnv == 1
\* total pressure events delivered to the notifier
MaxEvents == 2
\* last value of jiffies the model reaches
MaxJiffies == 6
\* timer frequency (jiffies per second); a kernel configuration value
HZ == 2

(* ------------------------- program constants --------------------------- *)
OOM_SCORE_ADJ_MAX == 1000
adj_max_shift == 353
\* ARRAY_SIZE(lowmem_adj)
LowmemArrayLen == 6
\* initial value of killNothing_adj and justkilled_adj
NoCeiling == 2000
\* PAGE_SIZE / 1024
PageKB == 4
\* the adaptive size floor, in megabytes
AdaptiveFloorMB == 80
\* the score above which the named processes are exempt
ExemptFloor == 200
\* the pressure level at which the notifier may arm the shift
PressureArm == 98

VMPRESSURE_NO_ADJUST == 0
VMPRESSURE_ADJUST_ENCROACH == 1
VMPRESSURE_ADJUST_NORMAL == 2

Sentinel == OOM_SCORE_ADJ_MAX + 1

Callers == 1..NCallers
Pids == 1..NProc
Tasks == 0..NProc

VARIABLES
  \* module parameters
  lowmem_adj, lowmem_adj_size, lowmem_minfree, lowmem_minfree_size,
  enable_adaptive_lmk, vmpressure_file_min,
  \* adaptive state
  shift_adj,
  \* throttle state
  lowmem_killNothing_timeout, lowmem_justkilled_timeout,
  killNothing, killNothing_adj, justkilled_adj,
  \* counters
  lowmem_scan_count, lowmem_escape1_count, lowmem_escape2_count,
  lowmem_escape3_count, lowmem_kill_count,
  \* the scan lock: 0 when free, else the caller holding it
  scan_mutex,
  jiffies,
  \* the task list
  comm, oom_score_adj, mm_rss, has_mm, tif_memdie, sigkill,
  \* one lowmem_scan activation per caller: its position and its locals
  pc, frame,
  \* history kept for the properties only: the kills of each activation,
  \* whether no process was eligible, the activations and outside changes so
  \* far, lowmem_scan_count when each activation was entered, and the last
  \* pressure event delivered with the value of shift_adj it found, whether
  \* list_insert failed in each activation, and the kills of the activation
  \* that last released the mutex (0 when it left at a gate)
  killLog, noneEligible, calls, envs, scan_count_at_call, vmpr,
  allocFailed, lastKills

cfgVars == <<lowmem_adj, lowmem_adj_size, lowmem_minfree, lowmem_minfree_size,
             enable_adaptive_lmk, vmpressure_file_min>>
throttleVars == <<lowmem_killNothing_timeout, lowmem_justkilled_timeout,
                  killNothing, killNothing_adj, justkilled_adj>>
counterVars == <<lowmem_scan_count, lowmem_escape1_count, lowmem_escape2_count,
                 lowmem_escape3_count, lowmem_kill_count>>
procVars == <<comm, oom_score_adj, mm_rss, has_mm, tif_memdie, sigkill>>
histVars == <<killLog, noneEligible, calls, envs, scan_count_at_call, vmpr,
              allocFailed, lastKills>>
vars == <<cfgVars, shift_adj, throttleVars, counterVars, scan_mutex, jiffies,
          procVars, pc, frame, histVars>>

(* --------------------------- configuration ----------------------------- *)
DefaultAdj == <<0, 1, 6, 12, 0, 0>>
DefaultMinfree == <<1536, 2048, 4096, 16384, 0, 0>>
\* a table given through the adj parameter
TunedAdj == <<0, 200, 529, 1000, 0, 0>>

\* task names; comm holds at most 15 characters of the process name
InitComm(p) == IF p = 0 THEN "kswapd0" ELSE "app_process"

\* the task a caller runs as: kswapd, or a process reclaiming directly
CallerTask(c) == IF c = 1 THEN 0 ELSE c

\* strstr(hay, needle) != NULL, tabulated for the names above
strstr(hay, needle) ==
  CASE hay = "droid.launcher3" -> needle = "launcher"
    [] hay = "d.process.acore" -> needle = "process.acore"
    [] hay = "d.process.media" -> needle = "process.media"
    [] hay = "e.process.gapps" -> needle = "process.gapps"
    [] hay = "auncher3:commo" -> needle = "auncher3:commo"
    [] OTHER -> FALSE

ExemptNames == {"launcher", "auncher3:commo", "process.acore",
                "process.gapps", "process.media"}

PF_KTHREAD(p) == p = 0

(* ----------------------------- initial state --------------------------- *)
InitFrame ==
  [current |-> 0, other_free |-> 0, other_file |-> 0,
   previous_min_score_adj |-> Sentinel, min_score_adj |-> Sentinel,
   shift_read |-> 0, bIsAdapterLMK |-> FALSE, nTaskMax |-> 4, nTaskNum |-> 0,
   ListHead |-> <<>>, tsk |-> 0, pos |-> 0, selected |-> 0,
   selected_oom_score_adj |-> 0, selected_tasksize |-> 0, rem |-> 0,
   exit |-> "none"]

\* the processes at the start: a small one first in the task list, then two
\* large ones with a higher score
InitScore(p) == IF p = 1 THEN 600 ELSE 900
InitRss(p) == IF p = 1 THEN 100 ELSE IF p = 2 THEN 25000 ELSE 30000

InitCommon ==
  /\ vmpressure_file_min = 0
  /\ lowmem_killNothing_timeout = 0
  /\ lowmem_justkilled_timeout = 0
  /\ killNothing = 0
  /\ killNothing_adj = NoCeiling
  /\ justkilled_adj = NoCeiling
  /\ lowmem_scan_count = 0
  /\ lowmem_escape1_count = 0
  /\ lowmem_escape2_count = 0
  /\ lowmem_escape3_count = 0
  /\ lowmem_kill_count = 0
  /\ scan_mutex = 0
  /\ jiffies = 1
  /\ has_mm = [p \in Tasks |-> p # 0]
  /\ tif_memdie = [p \in Tasks |-> FALSE]
  /\ sigkill = [p \in Tasks |-> 0]
  /\ pc = [c \in Callers |-> "idle"]
  /\ frame = [c \in Callers |-> InitFrame]
  /\ killLog = [c \in Callers |-> <<>>]
  /\ noneEligible = [c \in Callers |-> FALSE]
  /\ calls = 0
  /\ envs = 0
  /\ scan_count_at_call = [c \in Callers |-> 0]
  /\ vmpr = [n |-> 0, pressure |-> 0, free |-> 0, file |-> 0,
             flag_before |-> 0]
  /\ allocFailed = [c \in Callers |-> FALSE]
  /\ lastKills = 0

\* the adj table is the built-in one or one given when the module is loaded
Init ==
  /\ InitCommon
  /\ lowmem_adj \in {DefaultAdj, TunedAdj}
  /\ lowmem_adj_size = 4
  /\ lowmem_minfree = DefaultMinfree
  /\ lowmem_minfree_size = 4
  /\ comm = [p \in Tasks |-> InitComm(p)]
  /\ oom_score_adj = [p \in Tasks |-> IF p = 0 THEN 0 ELSE InitScore(p)]
  /\ mm_rss = [p \in Tasks |-> IF p = 0 THEN 0 ELSE InitRss(p)]
  /\ enable_adaptive_lmk = 0
  /\ shift_adj = 0


(* --------------------------- pure functions ---------------------------- *)
Merge(f, g) == [k \in DOMAIN f |-> IF k \in DOMAIN g THEN g[k] ELSE f[k]]

\* array_size as lowmem_scan and the notifier compute it
ArraySize(adjsz, mfsz) ==
  LET a == IF adjsz < LowmemArrayLen THEN adjsz ELSE LowmemArrayLen
  IN IF mfsz < a THEN mfsz ELSE a

\* the table loop without its break: the last matching row wins
RECURSIVE ScanTableNoBreak(_, _, _, _, _, _)
ScanTableNoBreak(adj, minfree, n, free, file, i) ==
  IF i >= n THEN OOM_SCORE_ADJ_MAX + 1
  ELSE LET rest == ScanTableNoBreak(adj, minfree, n, free, file, i + 1)
       IN IF rest # OOM_SCORE_ADJ_MAX + 1 THEN rest
          ELSE IF free < minfree[i + 1] /\ file < minfree[i + 1]
            THEN adj[i + 1]
          ELSE rest

\* the table loop: i is the C index, the sequences are 1-based
RECURSIVE ScanTable(_, _, _, _, _, _)
ScanTable(adj, minfree, n, free, file, i) ==
  IF i >= n THEN Sentinel
  ELSE IF free < minfree[i + 1] /\ file < minfree[i + 1] THEN adj[i + 1]
  ELSE ScanTable(adj, minfree, n, free, file, i + 1)

\* adjust_minadj without the comparison against adj_max_shift
adjust_minadj_NoCompare(score, enable, shift) ==
  IF enable = 0
    THEN [min_score_adj |-> score, ret |-> 0, shift_adj |-> shift]
  ELSE IF shift # 0
    THEN [min_score_adj |-> adj_max_shift, ret |-> VMPRESSURE_ADJUST_NORMAL,
          shift_adj |-> 0]
  ELSE [min_score_adj |-> score, ret |-> VMPRESSURE_NO_ADJUST, shift_adj |-> 0]

\* adjust_minadj clearing shift_adj only when it clamps
adjust_minadj_ClearOnClamp(score, enable, shift) ==
  IF enable = 0
    THEN [min_score_adj |-> score, ret |-> 0, shift_adj |-> shift]
  ELSE IF shift # 0 /\ score > adj_max_shift
    THEN [min_score_adj |-> adj_max_shift,
          ret |-> IF score = OOM_SCORE_ADJ_MAX + 1
                    THEN VMPRESSURE_ADJUST_ENCROACH
                    ELSE VMPRESSURE_ADJUST_NORMAL,
          shift_adj |-> 0]
  ELSE [min_score_adj |-> score, ret |-> VMPRESSURE_NO_ADJUST,
        shift_adj |-> shift]

\* adjust_minadj(&score): the new score, the return value, shift_adj afterwards
adjust_minadj(score, enable, shift) ==
  IF enable = 0
    THEN [min_score_adj |-> score, ret |-> 0, shift_adj |-> shift]
  ELSE IF shift # 0 /\ score > adj_max_shift
    THEN [min_score_adj |-> adj_max_shift,
          ret |-> IF score = OOM_SCORE_ADJ_MAX + 1
                    THEN VMPRESSURE_ADJUST_ENCROACH
                    ELSE VMPRESSURE_ADJUST_NORMAL,
          shift_adj |-> 0]
  ELSE [min_score_adj |-> score, ret |-> VMPRESSURE_NO_ADJUST, shift_adj |-> 0]

\* the gates with time_before in place of time_before_eq
JustKilledGate_Before(min) ==
  min >= justkilled_adj /\ jiffies < lowmem_justkilled_timeout

KillNothingGate_Before(min) ==
  min >= killNothing_adj /\ jiffies < lowmem_killNothing_timeout

\* the post-kill gate and the kill-nothing gate
JustKilledGate(min) ==
  min >= justkilled_adj /\ jiffies <= lowmem_justkilled_timeout

KillNothingGate(min) ==
  min >= killNothing_adj /\ jiffies <= lowmem_killNothing_timeout

\* the window size without its step at the highest score
TaskMax_NoTopStep(adaptive, min) ==
  IF adaptive THEN 2
  ELSE IF min >= 529 THEN 2
  ELSE IF min >= 300 THEN 4
  ELSE IF min >= 117 THEN 5
  ELSE 6

\* the size of the candidate window
TaskMax(adaptive, min) ==
  IF adaptive THEN 2
  ELSE IF min >= 1000 THEN 1
  ELSE IF min >= 529 THEN 2
  ELSE IF min >= 300 THEN 4
  ELSE IF min >= 117 THEN 5
  ELSE 6

\* the name exemption applied from the floor itself
NameExempt_AtFloor(p, min) ==
  \E pat \in ExemptNames : strstr(comm[p], pat) /\ min >= ExemptFloor

\* the name exemption
NameExempt(p, min) ==
  \E pat \in ExemptNames : strstr(comm[p], pat) /\ min > ExemptFloor

\* the filters of the walk without the score filter
ScanSkips_NoScore(p, min) ==
  \/ PF_KTHREAD(p)
  \/ ~has_mm[p]
  \/ tif_memdie[p]
  \/ NameExempt(p, min)
  \/ mm_rss[p] <= 0

\* the filters of the process walk: TRUE when the walk passes over task p
ScanSkips(p, min) ==
  \/ PF_KTHREAD(p)
  \/ ~has_mm[p]
  \/ tif_memdie[p]
  \/ NameExempt(p, min)
  \/ oom_score_adj[p] < min
  \/ mm_rss[p] <= 0

\* the comparison of the search loop without the sizes of equal scores
SearchBreaks_ScoreOnly(t, adj, size, adaptive) ==
  LET nTargeteAdj == oom_score_adj[t]
      nTargetSize == IF has_mm[t] THEN mm_rss[t] ELSE 0
  IN IF ~adaptive THEN adj <= nTargeteAdj ELSE size <= nTargetSize

\* the comparison that ends the search loop at list entry t
SearchBreaks(t, adj, size, adaptive) ==
  LET nTargeteAdj == oom_score_adj[t]
      nTargetSize == IF has_mm[t] THEN mm_rss[t] ELSE 0
  IN IF ~adaptive
       THEN IF adj > nTargeteAdj THEN FALSE
            ELSE IF adj < nTargeteAdj THEN TRUE
            ELSE size <= nTargetSize
       ELSE size <= nTargetSize

\* the search loop: the index of the entry it stopped at, Len(L) + 1 when it
\* ran off the end of the list
RECURSIVE SearchPos(_, _, _, _, _)
SearchPos(L, i, adj, size, adaptive) ==
  IF i > Len(L) THEN i
  ELSE IF SearchBreaks(L[i], adj, size, adaptive) THEN i
  ELSE SearchPos(L, i + 1, adj, size, adaptive)

\* pInsertPos != NULL
HasInsertPos(idx, len, nTaskNum, nTaskMax) ==
  \/ idx = len + 1
  \/ idx # 1
  \/ nTaskNum < nTaskMax

\* the limit check with the limit off by one
OverLimit_OffByOne(nTaskNum, nTaskMax) == nTaskNum > nTaskMax + 1

\* the kept tasks exceed the limit
OverLimit(nTaskNum, nTaskMax) == nTaskNum > nTaskMax

InsertBefore(L, idx, p) ==
  SubSeq(L, 1, idx - 1) \o <<p>> \o SubSeq(L, idx, Len(L))

\* the re-validation without the score check
KillSkips_NoScore(p, me, min) ==
  \/ tif_memdie[p]
  \/ p = me

\* the re-validation without the check against current
KillSkips_NoSelf(p, me, min) ==
  \/ tif_memdie[p]
  \/ oom_score_adj[p] < min

\* the re-validation without the test of TIF_MEMDIE
KillSkips_NoDying(p, me, min) ==
  \/ oom_score_adj[p] < min
  \/ p = me

\* the re-validation of the terminator: TRUE when the entry is passed over
\* before its size is read
KillSkips(p, me, min) ==
  \/ tif_memdie[p]
  \/ oom_score_adj[p] < min
  \/ p = me

\* the post-kill deadline without the division by the window size
JustKilledDeadline_NoDivision(now, nTaskMax) == now + HZ

\* the post-kill deadline set at each kill
JustKilledDeadline(now, nTaskMax) == now + (HZ \div nTaskMax)

\* the adaptive size floor
UnderFloor(adaptive, tasksize) ==
  adaptive /\ tasksize * PageKB < AdaptiveFloorMB * 1024

\* a lock that never excludes
MutexFree_Always == TRUE

MutexFree == scan_mutex = 0

SetFrame(c, g) == frame' = [frame EXCEPT ![c] = Merge(@, g)]
Goto(c, l) == pc' = [pc EXCEPT ![c] = l]


(* ------------------------ lowmem_scan, step by step -------------------- *)
\* entry: the locals are initialised; `me` is current
Call(c, me, max) ==
  /\ pc[c] = "idle"
  /\ calls < max
  /\ me = 0 \/ has_mm[me]
  /\ calls' = calls + 1
  /\ scan_count_at_call' = [scan_count_at_call EXCEPT ![c] = lowmem_scan_count]
  /\ SetFrame(c, [current |-> me])
  /\ Goto(c, "lock")
  /\ UNCHANGED <<cfgVars, shift_adj, throttleVars, counterVars, scan_mutex,
                 jiffies, procVars, killLog, noneEligible, envs, vmpr,
                 allocFailed, lastKills>>

\* the lock taken without counting the scan
Lock_NoCount(c) ==
  /\ pc[c] = "lock"
  /\ MutexFree
  /\ scan_mutex' = c
  /\ Goto(c, "resolve")
  /\ UNCHANGED <<cfgVars, shift_adj, throttleVars, counterVars, jiffies,
                 procVars, frame, histVars>>

\* mutex_lock_interruptible succeeds; lowmem_scan_count++
Lock(c) ==
  /\ pc[c] = "lock"
  /\ MutexFree
  /\ scan_mutex' = c
  /\ lowmem_scan_count' = lowmem_scan_count + 1
  /\ Goto(c, "resolve")
  /\ UNCHANGED <<cfgVars, shift_adj, throttleVars, lowmem_escape1_count,
                 lowmem_escape2_count, lowmem_escape3_count, lowmem_kill_count,
                 jiffies, procVars, frame, histVars>>

\* the interrupted wait counted as an escape
LockInterrupted_Counted(c) ==
  /\ pc[c] = "lock"
  /\ ~MutexFree
  /\ lowmem_escape1_count' = lowmem_escape1_count + 1
  /\ SetFrame(c, [exit |-> "intr"])
  /\ Goto(c, "ret")
  /\ UNCHANGED <<cfgVars, shift_adj, throttleVars, lowmem_scan_count,
                 lowmem_escape2_count, lowmem_escape3_count, lowmem_kill_count,
                 scan_mutex, jiffies, procVars, histVars>>

\* mutex_lock_interruptible is interrupted while waiting: return 0
LockInterrupted(c) ==
  /\ pc[c] = "lock"
  /\ ~MutexFree
  /\ SetFrame(c, [exit |-> "intr"])
  /\ Goto(c, "ret")
  /\ UNCHANGED <<cfgVars, shift_adj, throttleVars, counterVars, scan_mutex,
                 jiffies, procVars, histVars>>

\* the snapshot (after tune_lmk_param), the table loop, adjust_minadj
Resolve(c, free, file) ==
  /\ pc[c] = "resolve"
  /\ LET n == ArraySize(lowmem_adj_size, lowmem_minfree_size)
         prev == ScanTable(lowmem_adj, lowmem_minfree, n, free, file, 0)
         a == adjust_minadj(prev, enable_adaptive_lmk, shift_adj)
     IN /\ shift_adj' = a.shift_adj
        /\ SetFrame(c, [other_free |-> free, other_file |-> file,
                        previous_min_score_adj |-> prev,
                        min_score_adj |-> a.min_score_adj,
                        shift_read |-> shift_adj,
                        bIsAdapterLMK |-> (prev # a.min_score_adj)])
        /\ noneEligible' = [noneEligible EXCEPT ![c] =
             \A p \in Pids : has_mm[p] => oom_score_adj[p] < a.min_score_adj]
  /\ Goto(c, "gate")
  /\ UNCHANGED <<cfgVars, throttleVars, counterVars, scan_mutex, jiffies,
                 procVars, killLog, calls, envs, scan_count_at_call, vmpr,
                 allocFailed, lastKills>>

\* the gates returning at the post-kill gate with the mutex still held
Gate_NoUnlock(c) ==
  /\ pc[c] = "gate"
  /\ LET min == frame[c].min_score_adj IN
     \/ /\ JustKilledGate(min)
        /\ scan_mutex' = scan_mutex
        /\ SetFrame(c, [exit |-> "escape1"])
        /\ Goto(c, "escape1")
     \/ /\ ~JustKilledGate(min)
        /\ KillNothingGate(min)
        /\ scan_mutex' = 0
        /\ SetFrame(c, [exit |-> "escape2"])
        /\ Goto(c, "escape2")
     \/ /\ ~JustKilledGate(min)
        /\ ~KillNothingGate(min)
        /\ min = OOM_SCORE_ADJ_MAX + 1
        /\ scan_mutex' = 0
        /\ SetFrame(c, [exit |-> "escape3"])
        /\ Goto(c, "escape3")
     \/ /\ ~JustKilledGate(min)
        /\ ~KillNothingGate(min)
        /\ min # OOM_SCORE_ADJ_MAX + 1
        /\ scan_mutex' = scan_mutex
        /\ SetFrame(c, [selected_oom_score_adj |-> min,
                        nTaskMax |-> TaskMax(frame[c].bIsAdapterLMK, min),
                        tsk |-> 0])
        /\ Goto(c, "scan")
  /\ lastKills' = IF pc'[c] = "scan" THEN lastKills ELSE 0
  /\ UNCHANGED <<cfgVars, shift_adj, throttleVars, counterVars, jiffies,
                 procVars, killLog, noneEligible, calls, envs,
                 scan_count_at_call, vmpr, allocFailed>>

\* the gates without the exit on the sentinel score
Gate_NoSentinelExit(c) ==
  /\ pc[c] = "gate"
  /\ LET min == frame[c].min_score_adj IN
     \/ /\ JustKilledGate(min)
        /\ scan_mutex' = 0
        /\ SetFrame(c, [exit |-> "escape1"])
        /\ Goto(c, "escape1")
     \/ /\ ~JustKilledGate(min)
        /\ KillNothingGate(min)
        /\ scan_mutex' = 0
        /\ SetFrame(c, [exit |-> "escape2"])
        /\ Goto(c, "escape2")
     \/ /\ ~JustKilledGate(min)
        /\ ~KillNothingGate(min)
        /\ scan_mutex' = scan_mutex
        /\ SetFrame(c, [selected_oom_score_adj |-> min,
                        nTaskMax |-> TaskMax(frame[c].bIsAdapterLMK, min),
                        tsk |-> 0])
        /\ Goto(c, "scan")
  /\ lastKills' = IF pc'[c] = "scan" THEN lastKills ELSE 0
  /\ UNCHANGED <<cfgVars, shift_adj, throttleVars, counterVars, jiffies,
                 procVars, killLog, noneEligible, calls, envs,
                 scan_count_at_call, vmpr, allocFailed>>

\* the two cooldown gates, the policy miss, else the window size
Gate(c) ==
  /\ pc[c] = "gate"
  /\ LET min == frame[c].min_score_adj IN
     \/ /\ JustKilledGate(min)
        /\ scan_mutex' = 0
        /\ SetFrame(c, [exit |-> "escape1"])
        /\ Goto(c, "escape1")
     \/ /\ ~JustKilledGate(min)
        /\ KillNothingGate(min)
        /\ scan_mutex' = 0
        /\ SetFrame(c, [exit |-> "escape2"])
        /\ Goto(c, "escape2")
     \/ /\ ~JustKilledGate(min)
        /\ ~KillNothingGate(min)
        /\ min = OOM_SCORE_ADJ_MAX + 1
        /\ scan_mutex' = 0
        /\ SetFrame(c, [exit |-> "escape3"])
        /\ Goto(c, "escape3")
     \/ /\ ~JustKilledGate(min)
        /\ ~KillNothingGate(min)
        /\ min # OOM_SCORE_ADJ_MAX + 1
        /\ scan_mutex' = scan_mutex
        /\ SetFrame(c, [selected_oom_score_adj |-> min,
                        nTaskMax |-> TaskMax(frame[c].bIsAdapterLMK, min),
                        tsk |-> 0])
        /\ Goto(c, "scan")
  /\ lastKills' = IF pc'[c] = "scan" THEN lastKills ELSE 0
  /\ UNCHANGED <<cfgVars, shift_adj, throttleVars, counterVars, jiffies,
                 procVars, killLog, noneEligible, calls, envs,
                 scan_count_at_call, vmpr, allocFailed>>

\* the escape counters, incremented after mutex_unlock
Escape(c) ==
  /\ \/ /\ pc[c] = "escape1"
        /\ lowmem_escape1_count' = lowmem_escape1_count + 1
        /\ UNCHANGED <<lowmem_escape2_count, lowmem_escape3_count>>
     \/ /\ pc[c] = "escape2"
        /\ lowmem_escape2_count' = lowmem_escape2_count + 1
        /\ UNCHANGED <<lowmem_escape1_count, lowmem_escape3_count>>
     \/ /\ pc[c] = "escape3"
        /\ lowmem_escape3_count' = lowmem_escape3_count + 1
        /\ UNCHANGED <<lowmem_escape1_count, lowmem_escape2_count>>
  /\ Goto(c, "ret")
  /\ UNCHANGED <<cfgVars, shift_adj, throttleVars, lowmem_scan_count,
                 lowmem_kill_count, scan_mutex, jiffies, procVars, frame,
                 histVars>>

\* one iteration of for_each_process: the filters, the search, the insertion
ScanTask(c) ==
  /\ pc[c] = "scan"
  /\ frame[c].tsk <= NProc
  /\ LET f == frame[c]
         p == f.tsk
         L == f.ListHead
         adj == oom_score_adj[p]
         tasksize == mm_rss[p]
         idx == SearchPos(L, 1, adj, tasksize, f.bIsAdapterLMK)
     IN
     \/ /\ ScanSkips(p, f.min_score_adj)
        /\ SetFrame(c, [tsk |-> p + 1])
        /\ Goto(c, "scan")
     \/ /\ ~ScanSkips(p, f.min_score_adj)
        /\ f.nTaskNum = 0
        /\ \/ SetFrame(c, [ListHead |-> <<p>>, nTaskNum |-> 1, tsk |-> p + 1])
           \/ SetFrame(c, [tsk |-> p + 1])
        /\ Goto(c, "scan")
     \/ /\ ~ScanSkips(p, f.min_score_adj)
        /\ f.nTaskNum # 0
        /\ ~HasInsertPos(idx, Len(L), f.nTaskNum, f.nTaskMax)
        /\ SetFrame(c, [tsk |-> p + 1])
        /\ Goto(c, "scan")
     \/ /\ ~ScanSkips(p, f.min_score_adj)
        /\ f.nTaskNum # 0
        /\ HasInsertPos(idx, Len(L), f.nTaskNum, f.nTaskMax)
        /\ \/ /\ OverLimit(f.nTaskNum + 1, f.nTaskMax)
              /\ SetFrame(c, [ListHead |-> InsertBefore(L, idx, p),
                              nTaskNum |-> f.nTaskNum + 1])
              /\ Goto(c, "evict")
           \/ /\ ~OverLimit(f.nTaskNum + 1, f.nTaskMax)
              /\ SetFrame(c, [ListHead |-> InsertBefore(L, idx, p),
                              nTaskNum |-> f.nTaskNum + 1, tsk |-> p + 1])
              /\ Goto(c, "scan")
           \/ /\ SetFrame(c, [tsk |-> p + 1])
              /\ Goto(c, "scan")
  /\ LET f == frame[c]
         wanted == /\ ~ScanSkips(f.tsk, f.min_score_adj)
                   /\ \/ f.nTaskNum = 0
                      \/ HasInsertPos(SearchPos(f.ListHead, 1,
                                                oom_score_adj[f.tsk],
                                                mm_rss[f.tsk],
                                                f.bIsAdapterLMK),
                                      Len(f.ListHead), f.nTaskNum, f.nTaskMax)
     IN allocFailed' = [allocFailed EXCEPT ![c] =
          @ \/ (wanted /\ frame'[c].ListHead = f.ListHead)]
  /\ UNCHANGED <<cfgVars, shift_adj, throttleVars, counterVars, scan_mutex,
                 jiffies, procVars, killLog, noneEligible, calls, envs,
                 scan_count_at_call, vmpr, lastKills>>

\* the kept tasks exceed the limit: delete the head of the list
Evict(c) ==
  /\ pc[c] = "evict"
  /\ SetFrame(c, [ListHead |-> Tail(frame[c].ListHead),
                  nTaskNum |-> frame[c].nTaskNum - 1,
                  tsk |-> frame[c].tsk + 1])
  /\ Goto(c, "scan")
  /\ UNCHANGED <<cfgVars, shift_adj, throttleVars, counterVars, scan_mutex,
                 jiffies, procVars, histVars>>

\* the walk is over: killNothing = 1, the terminator starts at the tail
EndScan(c) ==
  /\ pc[c] = "scan"
  /\ frame[c].tsk > NProc
  /\ killNothing' = 1
  /\ SetFrame(c, [pos |-> Len(frame[c].ListHead)])
  /\ Goto(c, "kill")
  /\ UNCHANGED <<cfgVars, shift_adj, lowmem_killNothing_timeout,
                 lowmem_justkilled_timeout, killNothing_adj, justkilled_adj,
                 counterVars, scan_mutex, jiffies, procVars, histVars>>

\* one iteration of the terminator
KillStep(c) ==
  /\ pc[c] = "kill"
  /\ frame[c].pos >= 1
  /\ LET f == frame[c]
         p == f.ListHead[f.pos]
         min == f.min_score_adj
         adj == oom_score_adj[p]
         tasksize == IF has_mm[p] THEN mm_rss[p] ELSE f.selected_tasksize
     IN
     \/ /\ tif_memdie[p]
        /\ SetFrame(c, [selected |-> p, pos |-> f.pos - 1])
        /\ UNCHANGED <<throttleVars, lowmem_kill_count, procVars, killLog>>
     \/ /\ ~tif_memdie[p]
        /\ KillSkips(p, f.current, min)
        /\ SetFrame(c, [selected |-> p, pos |-> f.pos - 1,
                        selected_oom_score_adj |-> adj])
        /\ UNCHANGED <<throttleVars, lowmem_kill_count, procVars, killLog>>
     \/ /\ ~KillSkips(p, f.current, min)
        /\ UnderFloor(f.bIsAdapterLMK, tasksize)
        /\ SetFrame(c, [selected |-> p, pos |-> f.pos - 1,
                        selected_oom_score_adj |-> adj,
                        selected_tasksize |-> tasksize])
        /\ UNCHANGED <<throttleVars, lowmem_kill_count, procVars, killLog>>
     \/ /\ ~KillSkips(p, f.current, min)
        /\ ~UnderFloor(f.bIsAdapterLMK, tasksize)
        /\ killNothing' = 0
        /\ killNothing_adj' = NoCeiling
        /\ tif_memdie' = [tif_memdie EXCEPT ![p] = TRUE]
        /\ sigkill' = [sigkill EXCEPT ![p] = @ + 1]
        /\ lowmem_justkilled_timeout' = JustKilledDeadline(jiffies, f.nTaskMax)
        /\ justkilled_adj' = min
        /\ lowmem_kill_count' = lowmem_kill_count + 1
        /\ SetFrame(c, [selected |-> p, pos |-> f.pos - 1,
                        selected_oom_score_adj |-> adj,
                        selected_tasksize |-> tasksize,
                        rem |-> f.rem + tasksize])
        /\ killLog' = [killLog EXCEPT ![c] = Append(@,
             [pid |-> p, adj |-> adj, min |-> min, counted |-> tasksize,
              rss |-> IF has_mm[p] THEN mm_rss[p] ELSE 0,
              wasDying |-> tif_memdie[p], at |-> jiffies])]
        /\ UNCHANGED <<lowmem_killNothing_timeout, comm, oom_score_adj,
                       mm_rss, has_mm>>
  /\ Goto(c, "kill")
  /\ UNCHANGED <<cfgVars, shift_adj, lowmem_scan_count, lowmem_escape1_count,
                 lowmem_escape2_count, lowmem_escape3_count, scan_mutex,
                 jiffies, noneEligible, calls, envs, scan_count_at_call,
                 vmpr, allocFailed, lastKills>>

\* the end of the terminator without mutex_unlock
Unlock_NoRelease(c) ==
  /\ pc[c] = "kill"
  /\ frame[c].pos = 0
  /\ SetFrame(c, [ListHead |-> <<>>, exit |-> "scanned"])
  /\ lastKills' = Len(killLog[c])
  /\ Goto(c, "post")
  /\ UNCHANGED <<cfgVars, shift_adj, throttleVars, counterVars, scan_mutex,
                 jiffies, procVars, killLog, noneEligible, calls, envs,
                 scan_count_at_call, vmpr, allocFailed>>

\* list_reset, mutex_unlock
Unlock(c) ==
  /\ pc[c] = "kill"
  /\ frame[c].pos = 0
  /\ scan_mutex' = 0
  /\ SetFrame(c, [ListHead |-> <<>>, exit |-> "scanned"])
  /\ lastKills' = Len(killLog[c])
  /\ Goto(c, "post")
  /\ UNCHANGED <<cfgVars, shift_adj, throttleVars, counterVars, jiffies,
                 procVars, killLog, noneEligible, calls, envs,
                 scan_count_at_call, vmpr, allocFailed>>

\* after the unlock: if (killNothing)
Post(c) ==
  /\ pc[c] = "post"
  /\ \/ /\ killNothing # 0
        /\ Goto(c, "post1")
     \/ /\ killNothing = 0
        /\ Goto(c, "ret")
  /\ UNCHANGED <<cfgVars, shift_adj, throttleVars, counterVars, scan_mutex,
                 jiffies, procVars, frame, histVars>>

\* killNothing_adj = min_score_adj
Post1(c) ==
  /\ pc[c] = "post1"
  /\ killNothing_adj' = frame[c].min_score_adj
  /\ Goto(c, "post2")
  /\ UNCHANGED <<cfgVars, shift_adj, lowmem_killNothing_timeout,
                 lowmem_justkilled_timeout, killNothing, justkilled_adj,
                 counterVars, scan_mutex, jiffies, procVars, frame, histVars>>

\* lowmem_killNothing_timeout = jiffies + 2*HZ
Post2(c) ==
  /\ pc[c] = "post2"
  /\ lowmem_killNothing_timeout' = jiffies + 2 * HZ
  /\ Goto(c, "ret")
  /\ UNCHANGED <<cfgVars, shift_adj, lowmem_justkilled_timeout, killNothing,
                 killNothing_adj, justkilled_adj, counterVars, scan_mutex,
                 jiffies, procVars, frame, histVars>>

\* return rem (0 on the early exits); the activation ends
Return(c) ==
  /\ pc[c] = "ret"
  /\ frame' = [frame EXCEPT ![c] = InitFrame]
  /\ killLog' = [killLog EXCEPT ![c] = <<>>]
  /\ noneEligible' = [noneEligible EXCEPT ![c] = FALSE]
  /\ scan_count_at_call' = [scan_count_at_call EXCEPT ![c] = 0]
  /\ allocFailed' = [allocFailed EXCEPT ![c] = FALSE]
  /\ Goto(c, "idle")
  /\ UNCHANGED <<cfgVars, shift_adj, throttleVars, counterVars, scan_mutex,
                 jiffies, procVars, calls, envs, vmpr, lastKills>>


(* ------------------------ the vmpressure notifier ---------------------- *)
\* the flag without the check of the file pages
lmk_vmpressure_notifier_NoFileCheck(pressure, free, file) ==
  LET n == ArraySize(lowmem_adj_size, lowmem_minfree_size) IN
  IF enable_adaptive_lmk = 0 THEN shift_adj
  ELSE IF pressure >= PressureArm
    THEN IF free < lowmem_minfree[n] THEN 1 ELSE shift_adj
  ELSE 0

\* the flag never disarmed when the pressure has receded
lmk_vmpressure_notifier_NoDisarm(pressure, free, file) ==
  LET n == ArraySize(lowmem_adj_size, lowmem_minfree_size) IN
  IF enable_adaptive_lmk # 0 /\ pressure >= PressureArm
       /\ free < lowmem_minfree[n] /\ file < vmpressure_file_min
    THEN 1
    ELSE shift_adj

\* lmk_vmpressure_notifier(pressure) with the page counters it reads: the
\* value of shift_adj when it returns
lmk_vmpressure_notifier(pressure, free, file) ==
  LET n == ArraySize(lowmem_adj_size, lowmem_minfree_size) IN
  IF enable_adaptive_lmk = 0 THEN shift_adj
  ELSE IF pressure >= PressureArm
    THEN IF free < lowmem_minfree[n] /\ file < vmpressure_file_min
           THEN 1
           ELSE shift_adj
  ELSE 0

\* one pressure event is delivered; lowmem_minfree[array_size - 1] needs a
\* table that is not empty
Vmpressure(pressure, free, file) ==
  /\ vmpr.n < MaxEvents
  /\ ArraySize(lowmem_adj_size, lowmem_minfree_size) >= 1
  /\ shift_adj' = lmk_vmpressure_notifier(pressure, free, file)
  /\ vmpr' = [n |-> vmpr.n + 1, pressure |-> pressure, free |-> free,
              file |-> file, flag_before |-> shift_adj]
  /\ UNCHANGED <<cfgVars, throttleVars, counterVars, scan_mutex, jiffies,
                 procVars, pc, frame, killLog, noneEligible, calls, envs,
                 scan_count_at_call, allocFailed, lastKills>>

(* --------------------------- module parameters ------------------------- *)
WriteEnable(v) ==
  /\ v # enable_adaptive_lmk
  /\ enable_adaptive_lmk' = v
  /\ UNCHANGED <<lowmem_adj, lowmem_adj_size, lowmem_minfree,
                 lowmem_minfree_size, vmpressure_file_min, shift_adj,
                 throttleVars, counterVars, scan_mutex, jiffies, procVars, pc,
                 frame, histVars>>

WriteFileMin(v) ==
  /\ v # vmpressure_file_min
  /\ vmpressure_file_min' = v
  /\ UNCHANGED <<lowmem_adj, lowmem_adj_size, lowmem_minfree,
                 lowmem_minfree_size, enable_adaptive_lmk, shift_adj,
                 throttleVars, counterVars, scan_mutex, jiffies, procVars, pc,
                 frame, histVars>>

(* --------------------------- the rest of the system -------------------- *)
\* the callers between the resolution and the unlock
InScan(c) == pc[c] \in {"gate", "scan", "evict", "kill"}

\* user space writes /proc/<pid>/oom_score_adj
SetScore(p, s) ==
  /\ envs < MaxEnv
  /\ s # oom_score_adj[p]
  /\ oom_score_adj' = [oom_score_adj EXCEPT ![p] = s]
  /\ noneEligible' = [c \in Callers |->
       IF InScan(c)
         THEN noneEligible[c] /\ (has_mm[p] => s < frame[c].min_score_adj)
         ELSE noneEligible[c]]
  /\ envs' = envs + 1
  /\ UNCHANGED <<cfgVars, shift_adj, throttleVars, counterVars, scan_mutex,
                 jiffies, comm, mm_rss, has_mm, tif_memdie, sigkill, pc,
                 frame, killLog, calls, scan_count_at_call, vmpr,
                 allocFailed, lastKills>>

\* the resident set of a process grows or shrinks
SetRss(p, z) ==
  /\ envs < MaxEnv
  /\ has_mm[p]
  /\ z # mm_rss[p]
  /\ mm_rss' = [mm_rss EXCEPT ![p] = z]
  /\ envs' = envs + 1
  /\ UNCHANGED <<cfgVars, shift_adj, throttleVars, counterVars, scan_mutex,
                 jiffies, comm, oom_score_adj, has_mm, tif_memdie, sigkill,
                 pc, frame, killLog, noneEligible, calls, scan_count_at_call,
                 vmpr, allocFailed, lastKills>>

\* a process exits: its mm is released (task->mm = NULL, TIF_MM_RELEASED)
Exit(p) ==
  /\ envs < MaxEnv
  /\ has_mm[p]
  /\ \A c \in Callers : pc[c] = "idle" \/ frame[c].current # p
  /\ has_mm' = [has_mm EXCEPT ![p] = FALSE]
  /\ envs' = envs + 1
  /\ UNCHANGED <<cfgVars, shift_adj, throttleVars, counterVars, scan_mutex,
                 jiffies, comm, oom_score_adj, mm_rss, tif_memdie, sigkill,
                 pc, frame, killLog, noneEligible, calls, scan_count_at_call,
                 vmpr, allocFailed, lastKills>>

\* a process is marked TIF_MEMDIE by another killer than lowmem_scan
MarkDying(p) ==
  /\ envs < MaxEnv
  /\ has_mm[p]
  /\ ~tif_memdie[p]
  /\ tif_memdie' = [tif_memdie EXCEPT ![p] = TRUE]
  /\ envs' = envs + 1
  /\ UNCHANGED <<cfgVars, shift_adj, throttleVars, counterVars, scan_mutex,
                 jiffies, comm, oom_score_adj, mm_rss, has_mm, sigkill,
                 pc, frame, killLog, noneEligible, calls, scan_count_at_call,
                 vmpr, allocFailed, lastKills>>

Tick ==
  /\ jiffies < MaxJiffies
  /\ jiffies' = jiffies + 1
  /\ UNCHANGED <<cfgVars, shift_adj, throttleVars, counterVars, scan_mutex,
                 procVars, pc, frame, histVars>>

(* ------------------------------ inputs --------------------------------- *)
\* other_free / other_file pairs: the first matches the third row of the
\* default minfree table, the second its fourth row, the third no row
Snapshots == {<<3000, 3000>>, <<3000, 5000>>, <<20000, 20000>>}
EnvScores == {0}
EnvSizes == {100}
FileMins == {81250}
Pressures == {97, 98}

\* one activation of lowmem_scan by caller c
Scan(c, max) ==
  \/ Call(c, CallerTask(c), max)
  \/ Lock(c)
  \/ LockInterrupted(c)
  \/ \E s \in Snapshots : Resolve(c, s[1], s[2])
  \/ Gate(c)
  \/ Escape(c)
  \/ ScanTask(c)
  \/ Evict(c)
  \/ EndScan(c)
  \/ KillStep(c)
  \/ Unlock(c)
  \/ Post(c)
  \/ Post1(c)
  \/ Post2(c)
  \/ Return(c)

\* the same, for a caller that never finds the mutex taken
ScanAlone(c, max) ==
  \/ Call(c, CallerTask(c), max)
  \/ Lock(c)
  \/ \E s \in Snapshots : Resolve(c, s[1], s[2])
  \/ Gate(c)
  \/ Escape(c)
  \/ ScanTask(c)
  \/ Evict(c)
  \/ EndScan(c)
  \/ KillStep(c)
  \/ Unlock(c)
  \/ Post(c)
  \/ Post1(c)
  \/ Post2(c)
  \/ Return(c)

Environment ==
  \/ \E p \in Pids : \E s \in EnvScores : SetScore(p, s)
  \/ \E p \in Pids : \E z \in EnvSizes : SetRss(p, z)
  \/ \E p \in Pids : Exit(p)

Adaptive ==
  \/ \E pr \in Pressures : \E s \in Snapshots : Vmpressure(pr, s[1], s[2])
  \/ \E v \in {0, 1} : WriteEnable(v)
  \/ \E v \in FileMins : WriteFileMin(v)

(* ---------------------------- specifications --------------------------- *)
\* concurrent callers while the processes change under them; the module
\* parameters keep their initial values and jiffies stands still
Next ==
  \/ \E c \in Callers : Scan(c, MaxCalls)
  \/ Environment

Spec == Init /\ [][Next]_vars

\* one caller at a time while jiffies advances
NextTimed ==
  \/ ScanAlone(1, MaxCallsSeq)
  \/ Tick

SpecTimed == Init /\ [][NextTimed]_vars

\* one caller at a time, the adaptive feature switched on and off and the
\* notifier delivering pressure events
NextAdaptive ==
  \/ ScanAlone(1, MaxCalls)
  \/ Adaptive

SpecAdaptive == Init /\ [][NextAdaptive]_vars

\* one invocation with the adaptive feature, while the processes change
\* between the walk and the terminator
NextFloor ==
  \/ ScanAlone(1, 1)
  \/ Adaptive
  \/ Environment

SpecFloor == Init /\ [][NextFloor]_vars

\* concurrent callers, each of which keeps running once it has entered
\* lowmem_scan: a caller that can take its next step eventually takes it
NextLive == \E c \in Callers : Scan(c, MaxCalls)

Progress(c) ==
  \/ Lock(c)
  \/ \E s \in Snapshots : Resolve(c, s[1], s[2])
  \/ Gate(c)
  \/ Escape(c)
  \/ ScanTask(c)
  \/ Evict(c)
  \/ EndScan(c)
  \/ KillStep(c)
  \/ Unlock(c)
  \/ Post(c)
  \/ Post1(c)
  \/ Post2(c)
  \/ Return(c)

SpecLive ==
  Init /\ [][NextLive]_vars /\ \A c \in Callers : WF_vars(Progress(c))

\* concurrent callers over three invocations, nothing else changing
NextRace == \E c \in Callers : Scan(c, MaxCallsSeq)

SpecRace == Init /\ [][NextRace]_vars

\* concurrent callers while another killer marks processes
NextDying ==
  \/ \E c \in Callers : Scan(c, MaxCalls)
  \/ \E p \in Pids : MarkDying(p)

SpecDying == Init /\ [][NextDying]_vars

\* one invocation over a population drawn from the sets below: the table
\* resolves to each step of the window size, the processes carry equal and
\* different scores and sizes, and some carry an exempted name
RankAdjTables == {<<0, 0, 0, 117, 0, 0>>, <<0, 0, 200, 300, 0, 0>>,
                  <<0, 0, 529, 1000, 0, 0>>}
RankScores == {600, 1000}
RankSizes == {100, 200}
RankComms ==
  {[p \in Tasks |-> InitComm(p)],
   [p \in Tasks |-> IF p = 0 THEN InitComm(p)
                    ELSE IF p % 3 = 1 THEN "droid.launcher3"
                    ELSE IF p % 3 = 2 THEN "d.process.acore"
                    ELSE "d.process.media"],
   [p \in Tasks |-> IF p = 0 THEN InitComm(p)
                    ELSE IF p % 3 = 1 THEN "auncher3:commo"
                    ELSE IF p % 3 = 2 THEN "e.process.gapps"
                    ELSE "app_process"]}

InitRank ==
  /\ InitCommon
  /\ lowmem_adj \in RankAdjTables
  /\ lowmem_adj_size = 4
  /\ lowmem_minfree = DefaultMinfree
  /\ lowmem_minfree_size = 4
  /\ comm \in RankComms
  /\ oom_score_adj \in {f \in [Tasks -> {0} \cup RankScores] :
                          f[0] = 0 /\ \A p \in Pids : f[p] # 0}
  /\ mm_rss \in {f \in [Tasks -> {0} \cup RankSizes] :
                   f[0] = 0 /\ \A p \in Pids : p < NProc => f[p] # 0}
  /\ enable_adaptive_lmk \in {0, 1}
  /\ shift_adj = enable_adaptive_lmk

NextRank == ScanAlone(1, 1)

SpecRank == InitRank /\ [][NextRank]_vars


\* the threshold lookup and adjust_minadj on their own: the tables, their
\* sizes, the snapshot and the flags are drawn from the sets below
AdjTables == {DefaultAdj, TunedAdj, <<12, 6, 1, 0, 0, 0>>,
              <<1000, 354, 353, 0, 529, 200>>}
MinfreeTables == {DefaultMinfree, <<4096, 1536, 16384, 2048, 0, 0>>,
                  <<1536, 2048, 4096, 16384, 32768, 65536>>}
TableSizes == {0, 2, 4, 6}
PageCounts == {-1, 1000, 1600, 3000, 5000, 20000}

InitResolve ==
  /\ InitCommon
  /\ lowmem_adj \in AdjTables
  /\ lowmem_adj_size \in TableSizes
  /\ lowmem_minfree \in MinfreeTables
  /\ lowmem_minfree_size \in TableSizes
  /\ comm = [p \in Tasks |-> InitComm(p)]
  /\ oom_score_adj = [p \in Tasks |-> IF p = 0 THEN 0 ELSE InitScore(p)]
  /\ mm_rss = [p \in Tasks |-> IF p = 0 THEN 0 ELSE InitRss(p)]
  /\ enable_adaptive_lmk \in {0, 1}
  /\ shift_adj \in {0, 1}

NextResolve ==
  \/ Call(1, CallerTask(1), 1)
  \/ Lock(1)
  \/ \E free \in PageCounts : \E file \in PageCounts : Resolve(1, free, file)

SpecResolve == InitResolve /\ [][NextResolve]_vars

(* ------------------------------- claims -------------------------------- *)
\* the callers that have resolved their score and not yet returned
Resolved(c) == pc[c] \notin {"idle", "lock", "resolve"} /\ frame[c].exit # "intr"

\* the smallest of the two table sizes and the array length
EffectiveSize ==
  CHOOSE n \in {lowmem_adj_size, lowmem_minfree_size, LowmemArrayLen} :
    \A m \in {lowmem_adj_size, lowmem_minfree_size, LowmemArrayLen} : n <= m

\* the C indices of the table rows whose minfree exceeds both counts
MatchingRows(free, file) ==
  {i \in 0..(EffectiveSize - 1) :
     free < lowmem_minfree[i + 1] /\ file < lowmem_minfree[i + 1]}

FirstMatchScore(free, file) ==
  IF MatchingRows(free, file) = {} THEN OOM_SCORE_ADJ_MAX + 1
  ELSE lowmem_adj[1 + CHOOSE i \in MatchingRows(free, file) :
                        \A k \in MatchingRows(free, file) : i <= k]

IsDefaultTable ==
  /\ lowmem_adj = DefaultAdj /\ lowmem_adj_size = 4
  /\ lowmem_minfree = DefaultMinfree /\ lowmem_minfree_size = 4

\* C1: the score lowmem_scan resolves before the adaptive adjustment is
\* lowmem_adj[i] for the smallest i below min(adj size, minfree size, 6) with
\* other_free < lowmem_minfree[i] and other_file < lowmem_minfree[i], and
\* OOM_SCORE_ADJ_MAX + 1 when there is none, for monotone and non-monotone
\* tables alike; the default table with 3000 / 5000 resolves to 12.
C1_FirstMatch ==
  \A c \in Callers : pc[c] = "gate" =>
    /\ frame[c].previous_min_score_adj =
         FirstMatchScore(frame[c].other_free, frame[c].other_file)
    /\ (IsDefaultTable /\ frame[c].other_free = 3000
          /\ frame[c].other_file = 5000)
         => frame[c].previous_min_score_adj = 12

\* the default-table example has been resolved
C1_Witness ==
  \E c \in Callers :
    /\ pc[c] = "gate"
    /\ IsDefaultTable
    /\ frame[c].other_free = 3000
    /\ frame[c].other_file = 5000
    /\ frame[c].previous_min_score_adj = 12

\* C7: adjust_minadj never returns a score above the one it was given; it
\* changes the score exactly when the feature is enabled, the shift flag is
\* armed and the score exceeds adj_max_shift, and then to adj_max_shift; the
\* invocation is adaptive exactly when the score was changed.
C7_ClampOnlyLowers ==
  \A c \in Callers : pc[c] = "gate" =>
    LET prev == frame[c].previous_min_score_adj
        min == frame[c].min_score_adj
        armed == frame[c].shift_read # 0 /\ enable_adaptive_lmk # 0
    IN /\ min <= prev
       /\ (min # prev) <=> (armed /\ prev > adj_max_shift)
       /\ (min # prev) => min = adj_max_shift
       /\ frame[c].bIsAdapterLMK <=> (min # prev)

C7_Witness ==
  \E c \in Callers :
    /\ pc[c] = "gate"
    /\ frame[c].previous_min_score_adj = 1000
    /\ frame[c].min_score_adj = adj_max_shift
    /\ frame[c].bIsAdapterLMK


\* C2: no process is marked dying or sent SIGKILL by an invocation if its
\* score, read when the terminator re-validates it, is below the minimum
\* score that invocation resolved (after the adaptive adjustment).
C2_NoKillBelowMin ==
  \A c \in Callers : \A i \in DOMAIN killLog[c] :
    /\ killLog[c][i].min = frame[c].min_score_adj
    /\ killLog[c][i].adj >= frame[c].min_score_adj

\* an entry of the window whose score fell below the minimum after the walk
\* has been re-validated and passed over
C2_Witness ==
  \E c \in Callers :
    /\ pc[c] = "kill"
    /\ frame[c].selected # 0
    /\ frame[c].selected # frame[c].current
    /\ ~tif_memdie[frame[c].selected]
    /\ frame[c].selected_oom_score_adj < frame[c].min_score_adj
    /\ frame[c].pos < Len(frame[c].ListHead)

InCycle(c) == pc[c] \in {"resolve", "gate", "scan", "evict", "kill"}

\* C4: with any number of concurrent callers at most one invocation is
\* between the snapshot and the end of victim signalling, and it is the one
\* holding scan_mutex.
C4_OneCycleAtATime ==
  \A c \in Callers : InCycle(c) =>
    /\ scan_mutex = c
    /\ \A d \in Callers : InCycle(d) => d = c

\* one caller is in its process walk while another waits for the mutex
C4_Witness ==
  \E c \in Callers : \E d \in Callers :
    /\ c # d
    /\ pc[c] = "scan"
    /\ frame[c].ListHead # <<>>
    /\ pc[d] = "lock"

\* C10: when no live process has a score at or above the resolved minimum
\* from the resolution to the end of the invocation, the invocation returns
\* zero pages and marks and signals no process.
C10_NoEligibleNoEffect ==
  \A c \in Callers : (Resolved(c) /\ noneEligible[c]) =>
    /\ frame[c].rem = 0
    /\ killLog[c] = <<>>
    /\ frame[c].ListHead = <<>>

\* an invocation walked the processes, found none eligible and is returning
C10_Witness ==
  \E c \in Callers :
    /\ pc[c] = "ret"
    /\ frame[c].exit = "scanned"
    /\ noneEligible[c]
    /\ frame[c].rem = 0

\* C9 as stated: the window never holds more than nTaskMax entries, also
\* right after an insertion.
C9_WindowNeverAboveMax ==
  \A c \in Callers : pc[c] \in {"scan", "evict", "kill"} =>
    Len(frame[c].ListHead) <= frame[c].nTaskMax

\* C9, amended: the window holds at most nTaskMax entries once each
\* candidate's insertion and eviction are both done, and at most
\* nTaskMax + 1 between an insertion and the eviction that follows it.
C9_WindowBounded ==
  \A c \in Callers : pc[c] \in {"scan", "evict", "kill"} =>
    /\ frame[c].nTaskNum = Len(frame[c].ListHead)
    /\ Len(frame[c].ListHead) <= frame[c].nTaskMax + 1
    /\ pc[c] # "evict" => Len(frame[c].ListHead) <= frame[c].nTaskMax

\* an insertion into a full window, before its eviction
C9_Witness ==
  \E c \in Callers :
    /\ pc[c] = "evict"
    /\ Len(frame[c].ListHead) = frame[c].nTaskMax + 1


\* the step in which caller c passes or is stopped by the gates
GateStep(c) == pc[c] = "gate" /\ pc'[c] # "gate"

\* a kill has recorded a post-kill ceiling that the resolved score reaches
AtOrAboveCeiling(c) ==
  /\ justkilled_adj # NoCeiling
  /\ frame[c].min_score_adj >= justkilled_adj

\* an invocation stopped by a gate did no walk and no kill and returns zero
SkippedIsIdle(c) ==
  frame[c].exit \in {"escape1", "escape2"} =>
    /\ frame[c].rem = 0
    /\ frame[c].tsk = 0
    /\ frame[c].ListHead = <<>>
    /\ killLog[c] = <<>>

\* C5 as stated: after a kill, an invocation whose resolved score is at or
\* above the recorded ceiling returns zero without walking or killing when
\* its time is at or before the post-kill deadline, and proceeds to the
\* process scan when the deadline has passed.
C5_AfterDeadlineScans ==
  /\ [](\A c \in Callers : SkippedIsIdle(c))
  /\ [][\A c \in Callers : (GateStep(c) /\ AtOrAboveCeiling(c)) =>
          IF jiffies <= lowmem_justkilled_timeout
            THEN pc'[c] = "escape1"
            ELSE pc'[c] = "scan"]_vars

\* C5, amended: at or before the deadline the invocation is skipped; after
\* the deadline the post-kill gate lets it through, and it reaches the
\* process scan unless the kill-nothing gate stops it or its score is the
\* kill-nothing sentinel.
C5_PostKillGate ==
  /\ [](\A c \in Callers : SkippedIsIdle(c))
  /\ [][\A c \in Callers : (GateStep(c) /\ AtOrAboveCeiling(c)) =>
          IF jiffies <= lowmem_justkilled_timeout
            THEN pc'[c] = "escape1"
            ELSE /\ pc'[c] \in {"escape2", "escape3", "scan"}
                 /\ pc'[c] = "escape2" <=>
                      /\ frame[c].min_score_adj >= killNothing_adj
                      /\ jiffies <= lowmem_killNothing_timeout
                 /\ pc'[c] = "escape3" <=>
                      /\ ~(/\ frame[c].min_score_adj >= killNothing_adj
                           /\ jiffies <= lowmem_killNothing_timeout)
                      /\ frame[c].min_score_adj = OOM_SCORE_ADJ_MAX + 1]_vars

\* an invocation after a kill was stopped by the post-kill gate on the last
\* jiffy of the cooldown and is returning zero
C5_Witness ==
  \E c \in Callers :
    /\ pc[c] = "escape1"
    /\ AtOrAboveCeiling(c)
    /\ jiffies = lowmem_justkilled_timeout
    /\ frame[c].rem = 0

ResolveStep(c) == pc[c] = "resolve" /\ pc'[c] = "gate"

\* C8 as stated: right after an invocation has resolved its minimum score
\* the shift-adj flag is zero, whether or not that invocation clamped.
C8_FlagAlwaysCleared ==
  [][\A c \in Callers : ResolveStep(c) => shift_adj' = 0]_vars

\* C8, amended: with adaptive mode enabled the flag is zero right after the
\* resolution, whether or not the invocation clamped; with adaptive mode
\* disabled the resolution leaves the flag as it was.
C8_FlagClearedWhenEnabled ==
  [][\A c \in Callers : ResolveStep(c) =>
       IF enable_adaptive_lmk # 0
         THEN shift_adj' = 0
         ELSE shift_adj' = shift_adj]_vars

\* an invocation found the flag armed, did not clamp, and the flag is zero
C8_Witness ==
  \E c \in Callers :
    /\ pc[c] = "gate"
    /\ frame[c].shift_read # 0
    /\ ~frame[c].bIsAdapterLMK
    /\ enable_adaptive_lmk # 0
    /\ shift_adj = 0


\* C11: in an adaptive invocation no process whose resident size at the
\* time of its termination is below 80 MB is marked dying or signalled.
C11_AdaptiveFloor ==
  \A c \in Callers : \A i \in DOMAIN killLog[c] :
    frame[c].bIsAdapterLMK =>
      killLog[c][i].rss * PageKB >= AdaptiveFloorMB * 1024


\* an invocation stopped by the post-kill gate with a resolved score equal
\* to the score recorded at the last kill, before it returns
SkippedAtCeiling(c) ==
  /\ pc[c] \in {"escape1", "ret"}
  /\ frame[c].exit = "escape1"
  /\ frame[c].min_score_adj = justkilled_adj

\* C12 as stated: an invocation within the post-kill cooldown with a
\* resolved score equal to the recorded one reclaims zero pages, walks no
\* process and leaves lowmem_scan_count at its value before the invocation.
C12_ScanCountUntouched ==
  \A c \in Callers : SkippedAtCeiling(c) =>
    /\ frame[c].rem = 0
    /\ frame[c].tsk = 0 /\ frame[c].ListHead = <<>>
    /\ killLog[c] = <<>>
    /\ lowmem_scan_count = scan_count_at_call[c]

\* C12, amended: such an invocation reclaims zero pages, walks no process
\* and kills none, and lowmem_scan_count is one above its value before the
\* invocation; the same holds for a second consecutive such invocation.
C12_ScanCountedOnce ==
  \A c \in Callers : SkippedAtCeiling(c) =>
    /\ frame[c].rem = 0
    /\ frame[c].tsk = 0 /\ frame[c].ListHead = <<>>
    /\ killLog[c] = <<>>
    /\ lowmem_scan_count = scan_count_at_call[c] + 1

\* the second of two invocations skipped after one kill is returning
C12_Witness ==
  \E c \in Callers :
    /\ pc[c] = "ret"
    /\ SkippedAtCeiling(c)
    /\ lowmem_escape1_count = 2
    /\ lowmem_kill_count >= 1
    /\ lowmem_scan_count = 3


\* the step in which a cooldown gate stops caller c
SkipStep(c) == pc[c] = "gate" /\ pc'[c] \in {"escape1", "escape2"}

\* C13 as stated: an invocation skipped by either cooldown gate returns
\* zero without ever acquiring the scan lock.
C13_SkipWithoutLock ==
  /\ [](\A c \in Callers : SkippedIsIdle(c))
  /\ [][\A c \in Callers : SkipStep(c) => scan_mutex # c]_vars

\* C13, amended: an invocation skipped by either cooldown gate returns zero
\* without walking or killing; it holds the scan lock when the gate is
\* evaluated and releases it there, so it first waits for a scan in
\* progress.
C13_SkipUnderLock ==
  /\ [](\A c \in Callers : SkippedIsIdle(c))
  /\ [](\A c \in Callers : pc[c] = "gate" => scan_mutex = c)
  /\ [][\A c \in Callers : SkipStep(c) =>
          scan_mutex = c /\ scan_mutex' = 0]_vars

\* a caller has been stopped by the post-kill gate while the other one is
\* past its unlock
C13_Witness ==
  \E c \in Callers : \E d \in Callers :
    /\ c # d
    /\ pc[c] = "escape1"
    /\ frame[c].rem = 0
    /\ scan_mutex = 0
    /\ pc[d] \in {"post", "post1", "post2", "ret"}
    /\ frame[d].exit # "intr"


\* the step in which the wait of caller c for the mutex is interrupted
InterruptStep(c) == pc[c] = "lock" /\ pc'[c] = "ret"

\* an interrupted invocation did no work
InterruptedIsIdle(c) ==
  frame[c].exit = "intr" =>
    /\ frame[c].rem = 0
    /\ frame[c].tsk = 0
    /\ frame[c].ListHead = <<>>
    /\ killLog[c] = <<>>
    /\ scan_mutex # c

\* C14 as stated: when the acquisition of the scan lock is interrupted the
\* invocation returns zero, kills no process, leaves the throttle state
\* unchanged and increments an escape counter.
C14_InterruptCountsEscape ==
  /\ [](\A c \in Callers : InterruptedIsIdle(c))
  /\ [][\A c \in Callers : InterruptStep(c) =>
          /\ UNCHANGED <<throttleVars, procVars>>
          /\ lowmem_escape1_count' + lowmem_escape2_count'
               + lowmem_escape3_count'
             = lowmem_escape1_count + lowmem_escape2_count
               + lowmem_escape3_count + 1]_vars

\* C14, amended: when the acquisition of the scan lock is interrupted the
\* invocation returns zero, kills no process and leaves the throttle state,
\* the lock and every counter, the escape counters included, unchanged.
C14_InterruptChangesNothing ==
  /\ [](\A c \in Callers : InterruptedIsIdle(c))
  /\ [][\A c \in Callers :
          (InterruptStep(c) \/ (frame[c].exit = "intr" /\ pc'[c] # pc[c])) =>
            UNCHANGED <<throttleVars, counterVars, procVars, scan_mutex,
                        shift_adj>>]_vars

\* a caller whose wait was interrupted is returning zero while the other
\* one still holds the mutex
C14_Witness ==
  \E c \in Callers :
    /\ pc[c] = "ret"
    /\ frame[c].exit = "intr"
    /\ frame[c].rem = 0
    /\ scan_mutex \notin {0, c}


\* the step in which the notifier handles a pressure event
EventStep == vmpr'.n # vmpr.n

C16_LowPressureDisarms ==
  [][(EventStep /\ vmpr'.pressure < 98) => shift_adj' = 0]_vars

\* C16, amended: with adaptive mode enabled the flag is unarmed after an
\* event with a pressure below 98; with adaptive mode disabled the event
\* leaves the flag as it was.
C16_LowPressureDisarmsWhenEnabled ==
  [][(EventStep /\ vmpr'.pressure < 98) =>
       IF enable_adaptive_lmk # 0
         THEN shift_adj' = 0
         ELSE shift_adj' = shift_adj]_vars

\* the last event had a pressure below 98, found the flag armed and
\* disarmed it
C16_Witness ==
  /\ vmpr.n >= 1
  /\ vmpr.pressure < 98
  /\ vmpr.flag_before = 1
  /\ enable_adaptive_lmk # 0
  /\ shift_adj = 0
  /\ \A c \in Callers : pc[c] \in {"idle", "lock"}


\* caller c takes a step of its invocation
StepOf(c) == pc'[c] # pc[c] \/ frame'[c] # frame[c]

\* C17: every write an invocation makes to the throttle state (the two
\* deadlines, the two ceilings, the kill-nothing marker) and to the scan,
\* kill and escape counters happens while that invocation holds scan_mutex.
C17_WritesUnderLock ==
  [][\A c \in Callers :
       (StepOf(c) /\ (throttleVars' # throttleVars
                        \/ counterVars' # counterVars))
       => scan_mutex' = c]_vars


\* the table lookup of caller c matched no row
TableMiss(c) ==
  Resolved(c) /\ frame[c].previous_min_score_adj = OOM_SCORE_ADJ_MAX + 1

\* C18 as stated: when no table row matches the snapshot the invocation
\* kills no process and returns zero pages.
C18_MissKillsNothing ==
  \A c \in Callers : TableMiss(c) =>
    frame[c].rem = 0 /\ killLog[c] = <<>>

\* C18, amended: when no table row matches the snapshot and the adaptive
\* clamp does not lower the sentinel, the invocation walks no process,
\* kills none and returns zero pages.
C18_MissWithoutClamp ==
  \A c \in Callers : (TableMiss(c) /\ ~frame[c].bIsAdapterLMK) =>
    /\ frame[c].min_score_adj = OOM_SCORE_ADJ_MAX + 1
    /\ pc[c] \in {"gate", "escape1", "escape2", "escape3", "ret"}
    /\ frame[c].tsk = 0 /\ frame[c].ListHead = <<>>
    /\ frame[c].rem = 0 /\ killLog[c] = <<>>

\* an invocation whose lookup matched no row left at the sentinel exit and
\* is returning zero
C18_Witness ==
  \E c \in Callers :
    /\ pc[c] = "ret"
    /\ TableMiss(c)
    /\ frame[c].exit = "escape3"
    /\ frame[c].rem = 0


\* the step in which caller c accepts a victim
KillOf(c) == Len(killLog'[c]) = Len(killLog[c]) + 1

\* C19 as stated: each time the terminator accepts a victim the post-kill
\* deadline becomes the current time + HZ / nTaskMax and the post-kill
\* ceiling becomes that victim's own score.
C19_CeilingIsVictimScore ==
  [][\A c \in Callers : KillOf(c) =>
       /\ lowmem_justkilled_timeout' = jiffies + (HZ \div frame[c].nTaskMax)
       /\ justkilled_adj' = oom_score_adj[frame'[c].selected]]_vars

\* C19, amended: each time the terminator accepts a victim the post-kill
\* deadline becomes the current time + HZ / nTaskMax and the post-kill
\* ceiling becomes the minimum score the invocation resolved.
C19_CeilingIsResolvedScore ==
  [][\A c \in Callers : KillOf(c) =>
       /\ lowmem_justkilled_timeout' = jiffies + (HZ \div frame[c].nTaskMax)
       /\ justkilled_adj' = frame[c].min_score_adj
       /\ tif_memdie'[frame'[c].selected]]_vars

\* a victim whose score is above the resolved minimum has been killed, with
\* a window size that shortens the cooldown
C19_Witness ==
  \E c \in Callers :
    /\ killLog[c] # <<>>
    /\ killLog[c][Len(killLog[c])].adj > frame[c].min_score_adj
    /\ justkilled_adj = frame[c].min_score_adj
    /\ frame[c].nTaskMax = 2
    /\ lowmem_justkilled_timeout = killLog[c][Len(killLog[c])].at + 1


\* the step in which caller c, past its unlock, reads killNothing
PostStep(c) == pc[c] = "post" /\ pc'[c] # "post"

\* C20: under any interleaving of concurrent invocations, an invocation
\* writes the kill-nothing cooldown (ceiling = its resolved score, deadline
\* = now + 2*HZ) if and only if that same invocation ended its termination
\* pass with no victim killed.
C20_KillNothingIffNoVictim ==
  [][\A c \in Callers : PostStep(c) =>
       (pc'[c] = "post1" <=> killLog[c] = <<>>)]_vars


\* the window size the walk must use, as the claim tabulates it
StatedLimit(adaptive, min) ==
  IF adaptive THEN 2
  ELSE CASE min >= 1000 -> 1
         [] min >= 529 /\ min < 1000 -> 2
         [] min >= 300 /\ min < 529 -> 4
         [] min >= 117 /\ min < 300 -> 5
         [] OTHER -> 6

\* scores on both sides of every step of the window size
StepScores == {0, 116, 117, 299, 300, 528, 529, 999, 1000, 1001}

\* the invocation of caller c is past its gates
Walking(c) ==
  \/ pc[c] \in {"scan", "evict", "kill"}
  \/ pc[c] \in {"post", "post1", "post2", "ret"} /\ frame[c].exit = "scanned"

NameListed(p) ==
  \E pat \in {"launcher", "auncher3:commo", "process.acore",
               "process.gapps", "process.media"} : strstr(comm[p], pat)

\* the processes the walk of caller c may keep
Eligible(c) ==
  {p \in Pids : /\ has_mm[p]
                /\ ~tif_memdie[p]
                /\ oom_score_adj[p] >= frame[c].min_score_adj
                /\ mm_rss[p] > 0
                /\ ~(frame[c].min_score_adj > 200 /\ NameListed(p))}

\* the ranking key of p is at most that of q, in the mode of caller c
KeyLeq(c, p, q) ==
  IF frame[c].bIsAdapterLMK THEN mm_rss[p] <= mm_rss[q]
  ELSE \/ oom_score_adj[p] < oom_score_adj[q]
       \/ oom_score_adj[p] = oom_score_adj[q] /\ mm_rss[p] <= mm_rss[q]

\* the walk of caller c is over and its terminator has not started
WalkEnd(c) == pc[c] = "kill" /\ frame[c].pos = Len(frame[c].ListHead)

\* the window of caller c as a set
Kept(c) == {frame[c].ListHead[i] : i \in 1..Len(frame[c].ListHead)}

\* C22: at the end of a walk during which no score or size changed and no
\* allocation failed, the window is sorted by the key of the mode ((score,
\* size) lexicographic, or size alone in adaptive mode) and holds the
\* min(nTaskMax, number of eligible processes) eligible processes with the
\* largest keys: one left out has nTaskMax kept ones with keys at least as
\* large.
C22_WindowIsTopRanked ==
  \A c \in Callers : (WalkEnd(c) /\ ~allocFailed[c]) =>
    LET L == frame[c].ListHead
        E == Eligible(c)
        k == IF Cardinality(E) < frame[c].nTaskMax
               THEN Cardinality(E) ELSE frame[c].nTaskMax
    IN /\ \A i, j \in 1..Len(L) : i < j => KeyLeq(c, L[i], L[j])
       /\ \A i, j \in 1..Len(L) : i # j => L[i] # L[j]
       /\ Kept(c) \subseteq E
       /\ Len(L) = k
       /\ \A p \in E \ Kept(c) :
            /\ Len(L) = frame[c].nTaskMax
            /\ \A q \in Kept(c) : KeyLeq(c, p, q)

\* a walk over three eligible processes with a window of two has ended: the
\* process visited first was kept and then evicted, its key is the smallest
C22_Witness ==
  \E c \in Callers :
    /\ WalkEnd(c) /\ ~allocFailed[c]
    /\ ~frame[c].bIsAdapterLMK
    /\ frame[c].nTaskMax = 2
    /\ Eligible(c) = Pids
    /\ Len(frame[c].ListHead) = 2
    /\ 1 \notin Kept(c)
    /\ \A q \in Kept(c) : ~KeyLeq(c, q, 1)
    /\ oom_score_adj[frame[c].ListHead[1]] = oom_score_adj[frame[c].ListHead[2]]
    /\ mm_rss[frame[c].ListHead[1]] < mm_rss[frame[c].ListHead[2]]


RECURSIVE OwnSizes(_)
OwnSizes(log) ==
  IF log = <<>> THEN 0 ELSE log[1].rss + OwnSizes(Tail(log))

\* C24: the value a completed invocation returns is the sum, over exactly
\* the processes it marked dying and signalled, of each one's own resident
\* size read at its re-validation; a victim whose memory was released
\* between the walk and the terminator counts with its own size, zero, not
\* with a size read for another candidate.
C24_ReturnIsOwnSizes ==
  \A c \in Callers :
    (pc[c] \in {"post", "post1", "post2", "ret"}
       /\ frame[c].exit = "scanned") =>
      frame[c].rem = OwnSizes(killLog[c])


\* C25: across any sequence and interleaving of invocations a process
\* already marked dying is never marked or signalled again: the walk does
\* not keep it and the terminator passes over it, so each process is
\* signalled at most once.
C25_DyingNeverSignalledAgain ==
  [][\A p \in Pids :
       /\ tif_memdie[p] =>
            /\ tif_memdie'[p]
            /\ sigkill'[p] = sigkill[p]
            /\ \A c \in Callers : p \in Kept(c)' => p \in Kept(c)
       /\ sigkill'[p] # sigkill[p] =>
            /\ sigkill[p] = 0 /\ sigkill'[p] = 1
            /\ tif_memdie'[p]]_vars

\* an invocation has left out of its window a process killed by an earlier
\* invocation and its terminator has passed over a kept process that was
\* marked dying after the walk kept it
C25_Witness ==
  \E c \in Callers : \E p, q \in Pids :
    /\ pc[c] = "kill"
    /\ frame[c].pos < Len(frame[c].ListHead)
    /\ frame[c].selected = p
    /\ p \in Kept(c)
    /\ tif_memdie[p] /\ sigkill[p] = 0
    /\ tif_memdie[q] /\ sigkill[q] = 1
    /\ q \notin Kept(c)
    /\ killLog[c] = <<>>
    /\ oom_score_adj[q] >= frame[c].min_score_adj


\* C26: every invocation that acquires the scan lock releases it exactly
\* once before it returns, on every exit path (post-kill gate, kill-nothing
\* gate, policy miss, normal completion): a caller holds the lock exactly
\* while it is between its acquisition and its exit, so the lock is free
\* whenever no invocation is in progress, a holder always releases it, and
\* when it is free with a caller waiting a waiting caller acquires it.
C26_LockAlwaysReleased ==
  /\ [](\A c \in Callers :
         scan_mutex = c <=>
           pc[c] \in {"resolve", "gate", "scan", "evict", "kill"})
  /\ []((\A c \in Callers :
           pc[c] \notin {"resolve", "gate", "scan", "evict", "kill"})
         => scan_mutex = 0)
  /\ \A c \in Callers : (scan_mutex = c) ~> (scan_mutex # c)
  /\ (scan_mutex = 0 /\ \E c \in Callers : pc[c] = "lock")
       ~> (\E c \in Callers : scan_mutex = c)

\* a caller that entered before the other took the lock has waited for the
\* whole scan of the other and holds the lock now
C26_Witness ==
  \E c, d \in Callers :
    /\ c # d
    /\ pc[c] \in {"post", "post1", "post2", "ret"}
    /\ frame[c].exit = "scanned"
    /\ scan_count_at_call[c] = 0
    /\ scan_count_at_call[d] = 0
    /\ lowmem_scan_count = 2
    /\ scan_mutex = d


\* C27: an invocation whose resolved score is strictly below both recorded
\* ceilings is never skipped by a cooldown gate, whatever the deadlines;
\* while both ceilings still have their initial value 2000 no invocation is
\* skipped; and after an invocation that killed a victim the kill-nothing
\* gate does not skip the next invocation.
C27_GatesNeverSkipBelowCeilings ==
  [][\A c \in Callers : GateStep(c) =>
       /\ (/\ frame[c].min_score_adj < justkilled_adj
           /\ frame[c].min_score_adj < killNothing_adj)
            => pc'[c] \notin {"escape1", "escape2"}
       /\ (justkilled_adj = 2000 /\ killNothing_adj = 2000)
            => pc'[c] \notin {"escape1", "escape2"}
       /\ lastKills >= 1 => pc'[c] # "escape2"]_vars
====
